---- MODULE Spec2Model ----
(***************************************************************************)
(* Vessel Tracker API (main.py): IMO validation, the VesselFinder scrape,  *)
(* the MyShipTracking bounding-box query, the position selection and the   *)
(* AISStream websocket proxy.                                              *)
(*                                                                         *)
(* Text is modelled as a sequence of one-character strings (identifiers)   *)
(* or of tokens (age phrases); an optional value is <<>> (None) or <<v>>.  *)
(* A float is [nan |-> BOOLEAN, v |-> Int], v counted in units of          *)
(* 10^-FracDigits.                                                         *)
(***************************************************************************)
EXTENDS Integers, Sequences, FiniteSets, TLC

VARIABLES
    pc,            \* position of the request handler / of the pure call
    imo,           \* the identifier given to vessel_full / validate_imo
    valid,         \* outcome of validate_imo(imo)
    calls,         \* outbound HTTP calls made by the current request, in order
    vf_resp,       \* what the VesselFinder fetch returned
    page,          \* fields scraped from the VesselFinder page
    vf,            \* vf_lat, vf_lon, sog, cog parsed from the djson blob
    mst_resp,      \* what the MyShipTracking query returned
    mst_data,      \* result of get_myshiptracking_pos
    vf_age,        \* result of get_vf_age_minutes
    data,          \* dict returned by scrape_vesselfinder
    status,        \* HTTP status of the response (0: none yet)
    ws,            \* state of the websocket proxy
    relayed        \* PositionReport messages relayed to the frontend client

vars == <<pc, imo, valid, calls, vf_resp, page, vf, mst_resp, mst_data,
          vf_age, data, status, ws, relayed>>

-----------------------------------------------------------------------------
(* Bounds of the model *)

MaxDigit == 1          \* digits 0..MaxDigit in the enumerated identifiers
MaxImoLen == 8         \* longest enumerated identifier
MaxTokens == 3         \* longest enumerated age phrase
MaxAgeNum == 3         \* largest number in the enumerated age phrases
FracDigits == 2        \* decimal places carried by a coordinate
MaxRelayed == 1        \* messages relayed by the websocket proxy

-----------------------------------------------------------------------------
(* Optional values and floats *)

None == <<>>
Some(x) == <<x>>
IsNone(o) == o = <<>>
Val(o) == o[1]

Scale == 10 ^ FracDigits
Float(v) == [nan |-> FALSE, v |-> v]
NaN == [nan |-> TRUE, v |-> 0]

-----------------------------------------------------------------------------
(* Characters of an identifier *)

DigitChars == <<"0", "1", "2", "3", "4", "5", "6", "7", "8", "9">>
DecimalDigit == {DigitChars[i] : i \in 1..10}
Whitespace == {" "}
SuperscriptTwo == "^2"     \* U+00B2: str.isdigit() is True, int() raises

\* int(d) for a one-character string d that is a decimal digit
DigitValue(d) == CHOOSE k \in 0..9 : DigitChars[k + 1] = d

RECURSIVE lstrip(_)
lstrip(s) ==
    IF s # <<>> /\ Head(s) \in Whitespace THEN lstrip(Tail(s)) ELSE s

RECURSIVE rstrip(_)
rstrip(s) ==
    IF s # <<>> /\ s[Len(s)] \in Whitespace
    THEN rstrip(SubSeq(s, 1, Len(s) - 1))
    ELSE s

\* str.strip()
strip(s) == rstrip(lstrip(s))

\* str.isdigit(): non-empty, every character has the Unicode digit property
isdigit(s) ==
    /\ s # <<>>
    /\ \A i \in 1..Len(s) : s[i] \in DecimalDigit \cup {SuperscriptTwo}

ImoLength == 7

\* weight of the digit at 0-based index i
Weight(i) == 7 - i

RECURSIVE WeightedSum(_, _)
WeightedSum(digits, i) ==
    IF i > 5 THEN 0
    ELSE DigitValue(digits[i + 1]) * Weight(i) + WeightedSum(digits, i + 1)

validate_imo_without_checksum(id) ==
    LET s == strip(id) IN
    IF ~isdigit(s) \/ Len(s) # ImoLength THEN "False"
    ELSE IF \E i \in 1..Len(s) : s[i] \notin DecimalDigit THEN "ValueError"
    ELSE "True"

\* validate_imo: "True", "False", or "ValueError" when int(d) raises
validate_imo(id) ==
    LET s == strip(id) IN
    IF ~isdigit(s) \/ Len(s) # ImoLength THEN "False"
    ELSE IF \E i \in 1..Len(s) : s[i] \notin DecimalDigit THEN "ValueError"
    ELSE IF WeightedSum(s, 0) % 10 = DigitValue(s[7]) THEN "True"
    ELSE "False"

-----------------------------------------------------------------------------
(* Age phrases: a phrase is a sequence of tokens, a word or a number *)

Word(w) == [num |-> FALSE, w |-> w, n |-> 0]
Num(n) == [num |-> TRUE, w |-> "", n |-> n]

\* str.lower() on one word
lower(w) ==
    CASE w = "Just" -> "just"
      [] w = "Now" -> "now"
      [] w = "Min" -> "min"
      [] w = "Hours" -> "hours"
      [] w = "Days" -> "days"
      [] w = "UTC" -> "utc"
      [] OTHER -> w

LowerPhrase(p) == [i \in 1..Len(p) |-> [p[i] EXCEPT !.w = lower(p[i].w)]]

\* the lower-case words of which key is a substring
WordsContaining(key) ==
    CASE key = "now" -> {"now", "unknown"}
      [] key = "just" -> {"just"}
      [] key = "hour" -> {"hour", "hours"}
      [] key = "day" -> {"day", "days", "yesterday"}

\* key in age_str
Contains(p, key) ==
    \E i \in 1..Len(p) : ~p[i].num /\ p[i].w \in WordsContaining(key)

\* re.search(r"(\d+)", age_str): index of the first number, 0 when none
FirstNumber(p) ==
    IF \E i \in 1..Len(p) : p[i].num
    THEN CHOOSE i \in 1..Len(p) : p[i].num /\ \A j \in 1..(i - 1) : ~p[j].num
    ELSE 0

AgeSentinel == 999

\* get_vf_age_minutes(age_str), age_str an optional phrase
get_vf_age_minutes(age_str) ==
    IF IsNone(age_str) \/ Val(age_str) = <<>> THEN AgeSentinel
    ELSE LET p == LowerPhrase(Val(age_str))
             m == FirstNumber(p)
         IN IF Contains(p, "now") \/ Contains(p, "just") THEN 0
            ELSE IF m = 0 THEN AgeSentinel
            ELSE IF Contains(p, "hour") THEN p[m].n * 60
            ELSE IF Contains(p, "day") THEN p[m].n * 1440
            ELSE p[m].n

-----------------------------------------------------------------------------
(* Coordinates *)

Abs(x) == IF x < 0 THEN 0 - x ELSE x

\* the k decimal digits of f, most significant first
RECURSIVE DigitsOf(_, _)
DigitsOf(f, k) ==
    IF k = 0 THEN <<>> ELSE Append(DigitsOf(f \div 10, k - 1), f % 10)

\* rstrip("0") on a digit sequence
RECURSIVE RStripZeros(_)
RStripZeros(d) ==
    IF d # <<>> /\ d[Len(d)] = 0
    THEN RStripZeros(SubSeq(d, 1, Len(d) - 1))
    ELSE d

\* str(val).split(".")[-1] for a float: the shortest fraction, "0" for a whole number
ReprFraction(x) ==
    LET d == RStripZeros(DigitsOf(Abs(x.v) % Scale, FracDigits))
    IN IF d = <<>> THEN <<0>> ELSE d

\* count_decimals(val), val an optional float ("nan" holds no ".")
count_decimals(val) ==
    IF IsNone(val) THEN 0
    ELSE IF Val(val).nan THEN 0
    ELSE Len(RStripZeros(ReprFraction(Val(val))))

\* a <= b on floats: every comparison with NaN is False
FloatLE(a, b) == ~a.nan /\ ~b.nan /\ a.v <= b.v

MaxLat == 90
MaxLon == 180

is_valid_coordinates_latitude_only(lat, lon) ==
    IF IsNone(lat) \/ IsNone(lon) THEN FALSE
    ELSE /\ FloatLE(Float((0 - MaxLat) * Scale), Val(lat))
         /\ FloatLE(Val(lat), Float(MaxLat * Scale))

\* is_valid_coordinates(lat, lon), both optional floats
is_valid_coordinates(lat, lon) ==
    IF IsNone(lat) \/ IsNone(lon) THEN FALSE
    ELSE /\ FloatLE(Float((0 - MaxLat) * Scale), Val(lat))
         /\ FloatLE(Val(lat), Float(MaxLat * Scale))
         /\ FloatLE(Float((0 - MaxLon) * Scale), Val(lon))
         /\ FloatLE(Val(lon), Float(MaxLon * Scale))


-----------------------------------------------------------------------------
(* The djson blob of the VesselFinder page *)

\* A raw JSON value of ship_lat / ship_lon:
\*   "missing" key absent, null or ""        "number"  a JSON number
\*   "text"    a numeric string              "garbage" a non-numeric string
Raw(k, x) == [k |-> k, f |-> x]
Missing == Raw("missing", Float(0))

\* truthiness of ais.get(key)
Truthy(raw) ==
    \/ raw.k \in {"text", "garbage"}
    \/ raw.k = "number" /\ (raw.f.nan \/ raw.f.v # 0)

NoPosition == [vf_lat |-> None, vf_lon |-> None, sog |-> None, cog |-> None,
               raised |-> "none"]

\* lines 414-425: vf_lat, vf_lon, sog, cog out of the blob; "raised" names an
\* exception that leaves the try block uncaught
ParseDjson(dj) ==
    IF dj.kind \in {"absent", "invalid_json"} THEN NoPosition
    ELSE IF dj.kind = "not_object"
    THEN [NoPosition EXCEPT !.raised = "AttributeError"]
    ELSE IF Truthy(dj.ship_lat) /\ dj.ship_lat.k = "garbage" THEN NoPosition
    ELSE LET lat == IF Truthy(dj.ship_lat) THEN Some(dj.ship_lat.f) ELSE None
         IN IF Truthy(dj.ship_lon) /\ dj.ship_lon.k = "garbage"
            THEN [NoPosition EXCEPT !.vf_lat = lat]
            ELSE [vf_lat |-> lat,
                  vf_lon |-> IF Truthy(dj.ship_lon) THEN Some(dj.ship_lon.f)
                             ELSE None,
                  sog |-> dj.ship_sog,
                  cog |-> dj.ship_cog,
                  raised |-> "none"]

-----------------------------------------------------------------------------
(* MyShipTracking *)

\* get_myshiptracking_pos without the request: None, no call made
CenterMissing(center_lat, center_lon) == IsNone(center_lat) \/ IsNone(center_lon)

\* lines 315-341: the response turned into a position or None.  A response is
\* a timeout, a request error, a non-200 status, fewer than 3 lines, or lines
\* of which "line" is the vessel line (7 or more fields) that is examined; its
\* fields are text, "missing" standing for an empty or absent field.
ParseMst(mmsi, resp) ==
    IF resp.kind # "lines" THEN None
    ELSE IF resp.line.mmsi # mmsi THEN None
    ELSE IF \/ resp.line.lat.k # "text" \/ resp.line.lon.k # "text"
            \/ resp.line.sog.k = "garbage" \/ resp.line.cog.k = "garbage"
    THEN None       \* float() raises ValueError, caught at line 338
    ELSE Some([lat |-> resp.line.lat.f,
               lon |-> resp.line.lon.f,
               sog |-> IF Truthy(resp.line.sog) THEN Some(resp.line.sog.f) ELSE None,
               cog |-> IF Truthy(resp.line.cog) THEN Some(resp.line.cog.f) ELSE None])

\* the exception raised inside the try block of lines 307-332, "none" when the
\* block runs to its end or returns
MstException(mmsi, resp) ==
    CASE resp.kind = "timeout" -> "Timeout"
      [] resp.kind = "request_error" -> "RequestException"
      [] resp.kind = "lines" /\ resp.line.mmsi = mmsi
           /\ (\/ resp.line.lat.k # "text" \/ resp.line.lon.k # "text"
               \/ resp.line.sog.k = "garbage" \/ resp.line.cog.k = "garbage")
           -> "ValueError"
      [] OTHER -> "none"

MstCaughtNetworkOnly == {"Timeout", "RequestException"}

\* the except clauses of lines 334-339
MstCaught == {"Timeout", "RequestException", "ValueError", "IndexError"}

\* get_myshiptracking_pos(mmsi, center_lat, center_lon) for a given response:
\* "raised" names an exception that reaches the caller, "value" is the return
get_myshiptracking_pos(mmsi, resp) ==
    LET e == MstException(mmsi, resp)
    IN IF e # "none" /\ e \notin MstCaught
       THEN [raised |-> e, value |-> None]
       ELSE [raised |-> "none", value |-> ParseMst(mmsi, resp)]

-----------------------------------------------------------------------------
(* Position selection, lines 434-462 *)

StaleMinutes == 60

\* vf_age > 60 or mst_precision > vf_precision
PreferMstFromThreshold(age, mst_precision, vf_precision) ==
    age >= StaleMinutes \/ mst_precision > vf_precision

PreferMst(age, mst_precision, vf_precision) ==
    age > StaleMinutes \/ mst_precision > vf_precision

MstValid(m) == ~IsNone(m) /\ is_valid_coordinates(Some(Val(m).lat), Some(Val(m).lon))

Precision(lat, lon) == count_decimals(lat) + count_decimals(lon)

\* selected_source, lat, lon, sog, cog
SelectPosition(v, m, age) ==
    LET mst_valid == MstValid(m)
        vf_valid == is_valid_coordinates(v.vf_lat, v.vf_lon)
    IN IF mst_valid /\ vf_valid
       THEN IF PreferMst(age, Precision(Some(Val(m).lat), Some(Val(m).lon)),
                         Precision(v.vf_lat, v.vf_lon))
            THEN \* mst_data.get("sog", sog): the key is always present
                 [ais_source |-> "myshiptracking",
                  lat |-> Some(Val(m).lat), lon |-> Some(Val(m).lon),
                  sog |-> Val(m).sog, cog |-> Val(m).cog]
            ELSE [ais_source |-> "vesselfinder",
                  lat |-> v.vf_lat, lon |-> v.vf_lon,
                  sog |-> v.sog, cog |-> v.cog]
       ELSE IF mst_valid
       THEN [ais_source |-> "myshiptracking",
             lat |-> Some(Val(m).lat), lon |-> Some(Val(m).lon),
             sog |-> Val(m).sog, cog |-> Val(m).cog]
       ELSE IF vf_valid
       THEN [ais_source |-> "vesselfinder",
             lat |-> v.vf_lat, lon |-> v.vf_lon,
             sog |-> v.sog, cog |-> v.cog]
       ELSE [ais_source |-> "none", lat |-> None, lon |-> None,
             sog |-> v.sog, cog |-> v.cog]

\* the dict of lines 469-489 (the fields the position logic and the identity use)
FoundData(id, pg, v, m, age) ==
    LET sel == SelectPosition(v, m, age)
    IN [found |-> TRUE, imo |-> id, error |-> None,
        vessel_name |-> IF IsNone(pg.name) THEN Some("IMO") ELSE pg.name,
        mmsi |-> pg.mmsi,
        lat |-> sel.lat, lon |-> sel.lon, sog |-> sel.sog, cog |-> sel.cog,
        last_pos_utc |-> pg.last_pos_utc, ais_source |-> sel.ais_source]

\* the dict of lines 362-375
NotFoundData(id, err) ==
    [found |-> FALSE, imo |-> id, error |-> Some(err),
     vessel_name |-> None, mmsi |-> None,
     lat |-> None, lon |-> None, sog |-> None, cog |-> None,
     last_pos_utc |-> None, ais_source |-> "none"]

PageFetchedOr404(resp) == resp.kind \in {"200", "404"}

\* the fetch did not raise and response.status_code is neither 404 nor another
\* non-200 status
PageFetched(resp) == resp.kind = "200"

FetchError(resp) ==
    CASE resp.kind = "timeout" -> "Request timeout"
      [] resp.kind = "request_error" -> "RequestException"
      [] resp.kind = "404" -> "Vessel not found"
      [] OTHER -> "HTTP 500"

-----------------------------------------------------------------------------
(* Inputs *)

Str(t) == [i \in 1..Len(t) |-> DigitChars[t[i] + 1]]

ValidImo == Str(<<9, 0, 7, 4, 7, 2, 9>>)

\* identifiers sent to /vessel-full/{imo}
ImoRequests ==
    { ValidImo,
      Str(<<9, 7, 0, 6, 9, 0, 0>>),             \* the documented example
      Str(<<9, 0, 7, 4, 7, 2>>),                \* 6 digits
      Str(<<9, 0, 7, 4, 7, 2, 9, 0>>),          \* 8 digits
      <<" ">> \o ValidImo,                      \* padded
      Str(<<9, 0, 7, 4, 7, 2>>) \o <<"x">>,
      Str(<<9, 0, 7, 4, 7, 2>>) \o <<SuperscriptTwo>> }

\* every identifier of up to MaxImoLen characters over a small alphabet
ImoAlphabet == {DigitChars[d + 1] : d \in 0..MaxDigit} \cup {" ", "x", SuperscriptTwo}
ImoStrings == UNION {[1..n -> ImoAlphabet] : n \in 0..MaxImoLen}

\* age phrases on the page (the data-title of the info icon)
AgeWords == {"Just", "now", "min", "hours", "days", "ago", "unknown", "UTC"}
AgeTokens == {Word(w) : w \in AgeWords} \cup {Num(n) : n \in 1..MaxAgeNum}
AgePhrases == UNION {[1..n -> AgeTokens] : n \in 0..MaxTokens}

MinAgo(n) == <<Num(n), Word("min"), Word("ago")>>
PageAges ==
    { None,
      Some(<<Word("Just"), Word("now")>>),
      Some(MinAgo(3)), Some(MinAgo(10)), Some(MinAgo(60)), Some(MinAgo(61)),
      Some(<<Num(2), Word("hours"), Word("ago")>>) }

\* d degrees plus h units of 10^-FracDigits
Deg(d, h) == Float(d * Scale + h)
Half == Scale \div 2

\* (ship_lat, ship_lon) of the blob
PrimaryPositions ==
    { <<Raw("text", Deg(10, 0)), Raw("text", Deg(20, 0))>>,
      <<Raw("text", Deg(10, Half)), Raw("text", Deg(20, 0))>>,
      <<Raw("number", Deg(10, Half)), Raw("number", Deg(20, Half))>>,
      <<Raw("number", Deg(10, 1)), Raw("number", Deg(20, 1))>>,
      <<Raw("text", Deg(90, 0)), Raw("text", Deg(0 - 180, 0))>>,
      <<Raw("number", Deg(90, 1)), Raw("number", Deg(20, 0))>>,
      <<Raw("number", Deg(10, 0)), Raw("number", Deg(180, 1))>>,
      <<Raw("number", Deg(0, 0)), Raw("number", Deg(0, 0))>>,
      <<Missing, Raw("number", Deg(20, 0))>>,
      <<Raw("number", Deg(10, 0)), Missing>>,
      <<Raw("garbage", Float(0)), Raw("number", Deg(20, 0))>>,
      <<Raw("number", Deg(10, 0)), Raw("garbage", Float(0))>> }

Djsons ==
    { [kind |-> k, ship_lat |-> Missing, ship_lon |-> Missing,
       ship_sog |-> None, ship_cog |-> None]
        : k \in {"absent", "invalid_json", "not_object"} }
    \cup
    { [kind |-> "object", ship_lat |-> p[1], ship_lon |-> p[2],
       ship_sog |-> sog, ship_cog |-> cog]
        : p \in PrimaryPositions, sog \in {None, Some(Deg(12, 0))},
          cog \in {None, Some(Deg(45, 0))} }

Pages ==
    { [name |-> Some("VESSEL"), mmsi |-> m, last_pos_utc |-> a, djson |-> dj]
        : m \in {None, Some("M1")}, a \in PageAges, dj \in Djsons }

\* the body of an error response: no vessel markup
ErrorPage ==
    [name |-> None, mmsi |-> None, last_pos_utc |-> None,
     djson |-> [kind |-> "absent", ship_lat |-> Missing, ship_lon |-> Missing,
                ship_sog |-> None, ship_cog |-> None]]

\* the fetch raises (no response), or answers 404, 500 or 200 with a body
VfResponses ==
    { [kind |-> k, page |-> None] : k \in {"timeout", "request_error"} }
    \cup { [kind |-> k, page |-> Some(ErrorPage)] : k \in {"404", "500"} }
    \cup { [kind |-> "200", page |-> Some(pg)] : pg \in Pages }

\* (parts[4], parts[5]) of the vessel line
MstPositions ==
    { <<Raw("text", Deg(11, 0)), Raw("text", Deg(21, 0))>>,
      <<Raw("text", Deg(11, Half)), Raw("text", Deg(21, 0))>>,
      <<Raw("text", Deg(11, 1)), Raw("text", Deg(21, 1))>>,
      <<Raw("text", Deg(0 - 90, 0 - 1)), Raw("text", Deg(21, 0))>>,
      <<Raw("text", Deg(11, 0)), Raw("text", Deg(0 - 180, 0 - 1))>>,
      <<Raw("text", NaN), Raw("text", Deg(21, 0))>>,
      <<Raw("garbage", Float(0)), Raw("text", Deg(21, 0))>> }

NoLine == [mmsi |-> "", lat |-> Missing, lon |-> Missing, sog |-> Missing,
           cog |-> Missing]

MstResponses ==
    { [kind |-> k, line |-> NoLine]
        : k \in {"timeout", "request_error", "status", "short"} }
    \cup
    { [kind |-> "lines",
       line |-> [mmsi |-> m, lat |-> p[1], lon |-> p[2], sog |-> sog, cog |-> cog]]
        : m \in {"M1", "M2"}, p \in MstPositions,
          sog \in {Missing, Raw("text", Deg(7, 0)), Raw("garbage", Float(0))},
          cog \in {Missing, Raw("text", Deg(30, 0))} }

\* PositionReport messages of the AISStream feed
AisMessages ==
    { [mmsi |-> "M1", lat |-> Deg(12, 0), lon |-> Deg(22, 0)],
      [mmsi |-> "M1", lat |-> Deg(91, 0), lon |-> Deg(22, 0)],
      [mmsi |-> "M2", lat |-> Deg(12, 0), lon |-> Deg(22, 0)] }

-----------------------------------------------------------------------------
(* The request handler *)

\* Path(pattern=r"^\d{7}$"): checked before the handler body runs
PathPattern(id) ==
    /\ Len(id) = ImoLength
    /\ \A i \in 1..Len(id) : id[i] \in DecimalDigit

NoRequest ==
    /\ valid = "unset"
    /\ calls = <<>>
    /\ vf_resp = None
    /\ page = None
    /\ vf = None
    /\ mst_resp = None
    /\ mst_data = None
    /\ vf_age = None
    /\ data = None
    /\ status = 0

\* GET /vessel-full/{imo}, up to the first outbound call (lines 511-535)
vessel_full(id) ==
    /\ pc \in {"idle", "done"}
    /\ imo' = id
    /\ calls' = <<>>
    /\ vf_resp' = None
    /\ page' = None
    /\ vf' = None
    /\ mst_resp' = None
    /\ mst_data' = None
    /\ vf_age' = None
    /\ data' = None
    /\ IF ~PathPattern(id)
       THEN valid' = "unset" /\ status' = 422 /\ pc' = "done"
       ELSE /\ valid' = validate_imo(id)
            /\ IF valid' = "True" THEN status' = 0 /\ pc' = "fetch"
               ELSE IF valid' = "False" THEN status' = 400 /\ pc' = "done"
               ELSE status' = 500 /\ pc' = "done"
    /\ UNCHANGED <<ws, relayed>>

\* the rest of scrape_vesselfinder and of vessel_full once every fetch is in
Finish(pg, v, m) ==
    /\ vf_age' = Some(get_vf_age_minutes(pg.last_pos_utc))
    /\ data' = Some(FoundData(imo, pg, v, m, Val(vf_age')))
    /\ status' = 200
    /\ pc' = "done"

\* mmsi and vf_lat is not None and vf_lon is not None
QueriesMst(pg, v) == ~IsNone(pg.mmsi) /\ ~CenterMissing(v.vf_lat, v.vf_lon)

\* requests.get(url) answered (lines 360-430)
vesselfinder_response(resp) ==
    /\ pc = "fetch"
    /\ calls' = Append(calls, "vesselfinder")
    /\ vf_resp' = Some(resp)
    /\ IF ~PageFetched(resp)
       THEN /\ data' = Some(NotFoundData(imo, FetchError(resp)))
            /\ status' = 404
            /\ pc' = "done"
            /\ UNCHANGED <<page, vf, mst_data, vf_age>>
       ELSE LET pg == Val(resp.page)
                v == ParseDjson(pg.djson)
            IN /\ page' = Some(pg)
               /\ vf' = Some(v)
               /\ IF v.raised # "none"
                  THEN /\ status' = 500
                       /\ pc' = "done"
                       /\ UNCHANGED <<mst_data, vf_age, data>>
                  ELSE IF QueriesMst(pg, v)
                  THEN /\ pc' = "mst"
                       /\ UNCHANGED <<mst_data, vf_age, data, status>>
                  ELSE /\ mst_data' = None
                       /\ Finish(pg, v, None)
    /\ UNCHANGED <<imo, valid, mst_resp, ws, relayed>>

\* requests.get(MYSHIPTRACKING_URL) answered (lines 307-341, 430-489, 537-543)
myshiptracking_response(resp) ==
    /\ pc = "mst"
    /\ calls' = Append(calls, "myshiptracking")
    /\ mst_resp' = Some(resp)
    /\ LET r == get_myshiptracking_pos(Val(Val(page).mmsi), resp)
       IN IF r.raised # "none"
          THEN /\ status' = 500
               /\ pc' = "done"
               /\ UNCHANGED <<mst_data, vf_age, data>>
          ELSE /\ mst_data' = r.value
               /\ Finish(Val(page), Val(vf), mst_data')
    /\ UNCHANGED <<imo, valid, vf_resp, page, vf, ws, relayed>>

-----------------------------------------------------------------------------
(* The websocket proxy /ws/ais-stream (lines 83-114) *)

\* websocket.accept(), connect to AISStream, send the subscription
websocket_connect ==
    /\ ws = "closed"
    /\ ws' = "subscribed"
    /\ relayed' = {}
    /\ UNCHANGED <<pc, imo, valid, calls, vf_resp, page, vf, mst_resp, mst_data,
                   vf_age, data, status>>

\* async for message in ais_ws: websocket.send_text(message)
websocket_relay(msg) ==
    /\ ws = "subscribed"
    /\ Cardinality(relayed) < MaxRelayed
    /\ relayed' = relayed \cup {msg}
    /\ UNCHANGED <<pc, imo, valid, calls, vf_resp, page, vf, mst_resp, mst_data,
                   vf_age, data, status, ws>>

\* either side disconnects, or an error ends the proxy
websocket_close ==
    /\ ws = "subscribed"
    /\ ws' = "closed"
    /\ relayed' = {}
    /\ UNCHANGED <<pc, imo, valid, calls, vf_resp, page, vf, mst_resp, mst_data,
                   vf_age, data, status>>

-----------------------------------------------------------------------------
(* Specification of the service *)

Init ==
    /\ pc = "idle"
    /\ imo = <<>>
    /\ NoRequest
    /\ ws = "closed"
    /\ relayed = {}

Next ==
    \/ \E id \in ImoRequests : vessel_full(id)
    \/ \E resp \in VfResponses : vesselfinder_response(resp)
    \/ \E resp \in MstResponses : myshiptracking_response(resp)
    \/ websocket_connect
    \/ \E msg \in AisMessages : websocket_relay(msg)
    \/ websocket_close

Spec == Init /\ [][Next]_vars

-----------------------------------------------------------------------------
(* validate_imo on its own, over every enumerated identifier *)

validate_imo_call ==
    /\ pc = "call"
    /\ valid' = validate_imo(imo)
    /\ pc' = "return"
    /\ UNCHANGED <<imo, calls, vf_resp, page, vf, mst_resp, mst_data, vf_age,
                   data, status, ws, relayed>>

InitImo ==
    /\ pc = "call"
    /\ imo \in ImoStrings
    /\ NoRequest
    /\ ws = "closed"
    /\ relayed = {}

NextImo == validate_imo_call

SpecImo == InitImo /\ [][NextImo]_vars

-----------------------------------------------------------------------------
(* get_vf_age_minutes on its own, over every enumerated age phrase *)

get_vf_age_minutes_call ==
    /\ pc = "call"
    /\ vf_age' = Some(get_vf_age_minutes(Val(page).last_pos_utc))
    /\ pc' = "return"
    /\ UNCHANGED <<imo, valid, calls, vf_resp, page, vf, mst_resp, mst_data,
                   data, status, ws, relayed>>

InitAge ==
    /\ pc = "call"
    /\ imo = <<>>
    /\ valid = "unset"
    /\ calls = <<>>
    /\ vf_resp = None
    /\ \E a \in {None} \cup {Some(p) : p \in AgePhrases} :
          page = Some([ErrorPage EXCEPT !.last_pos_utc = a])
    /\ vf = None
    /\ mst_resp = None
    /\ mst_data = None
    /\ vf_age = None
    /\ data = None
    /\ status = 0
    /\ ws = "closed"
    /\ relayed = {}

NextAge == get_vf_age_minutes_call

SpecAge == InitAge /\ [][NextAge]_vars

-----------------------------------------------------------------------------
(* Properties *)

Digit(s, i) == DigitValue(s[i])

\* exactly 7 decimal digits whose first six, weighted 7,6,5,4,3,2, sum mod 10
\* to the seventh
ExactImo(s) ==
    /\ Len(s) = 7
    /\ \A i \in 1..Len(s) : s[i] \in DecimalDigit
    /\ (7 * Digit(s, 1) + 6 * Digit(s, 2) + 5 * Digit(s, 3) + 4 * Digit(s, 4)
        + 3 * Digit(s, 5) + 2 * Digit(s, 6)) % 10 = Digit(s, 7)

\* an optional float pair inside [-90,90] x [-180,180]
InBounds(lat, lon) ==
    /\ ~IsNone(lat) /\ ~IsNone(lon)
    /\ ~Val(lat).nan /\ ~Val(lon).nan
    /\ Val(lat).v >= (0 - 90) * Scale /\ Val(lat).v <= 90 * Scale
    /\ Val(lon).v >= (0 - 180) * Scale /\ Val(lon).v <= 180 * Scale

Answered == pc = "done" /\ ~IsNone(data) /\ Val(data).found
Result == Val(data)
Primary == Val(vf)
PrimaryValid == InBounds(Primary.vf_lat, Primary.vf_lon)
Box == Val(mst_data)
BoxValid == ~IsNone(mst_data) /\ InBounds(Some(Box.lat), Some(Box.lon))
Age == Val(vf_age)
PrimaryPrecision == Precision(Primary.vf_lat, Primary.vf_lon)
BoxPrecision == Precision(Some(Box.lat), Some(Box.lon))
BoxSelected ==
    /\ Result.ais_source = "myshiptracking"
    /\ Result.lat = Some(Box.lat)
    /\ Result.lon = Some(Box.lon)
PrimarySelected ==
    /\ Result.ais_source = "vesselfinder"
    /\ Result.lat = Primary.vf_lat
    /\ Result.lon = Primary.vf_lon

\* C1: validate_imo accepts an identifier exactly when it is 7 decimal digits
\* with a correct check digit, and returns False for every other string.
C1_AcceptsExactlyCheckedImo ==
    pc = "return" =>
        /\ (valid = "True") <=> ExactImo(imo)
        /\ ~ExactImo(imo) => valid = "False"

C1_RaisesOnSuperscript ==
    /\ pc = "return"
    /\ Len(imo) = 7
    /\ imo[7] = SuperscriptTwo
    /\ valid = "ValueError"

\* C2 as stated: a request whose identifier fails validation ends with HTTP 400
\* and makes no outbound call.
C2_InvalidGets400 ==
    (pc # "idle" /\ ~ExactImo(imo)) =>
        /\ pc = "done"
        /\ status = 400
        /\ calls = <<>>

\* C2 as amended: a request whose identifier fails validation is rejected with
\* HTTP 422 when it is not exactly 7 digits and with HTTP 400 when its 7 digits
\* fail the checksum, and at no point of the request is an outbound call made.
C2_InvalidRejectedWithoutCall ==
    (pc # "idle" /\ ~ExactImo(imo)) =>
        /\ pc = "done"
        /\ status = IF PathPattern(imo) THEN 400 ELSE 422
        /\ calls = <<>>
        /\ IsNone(data)

C2_ChecksumRejected ==
    /\ pc = "done"
    /\ PathPattern(imo)
    /\ ~ExactImo(imo)
    /\ status = 400
    /\ calls = <<>>

\* C3: when the primary fetch of a valid identifier answers not-found, the
\* request ends with found = false and HTTP 404, and the bounding-box source is
\* never queried.
C3_NotFoundWithoutBoxQuery ==
    (pc = "done" /\ ~IsNone(vf_resp) /\ Val(vf_resp).kind = "404") =>
        /\ status = 404
        /\ ~IsNone(data)
        /\ ~Val(data).found
        /\ calls = <<"vesselfinder">>
        /\ IsNone(mst_resp)

C3_PrimaryAnswered404 ==
    /\ pc = "done"
    /\ ExactImo(imo)
    /\ ~IsNone(vf_resp)
    /\ Val(vf_resp).kind = "404"
    /\ status = 404

\* C4: a found = true result either carries lat and lon inside
\* [-90,90] x [-180,180] together with the name of the source they came from,
\* or carries neither and has ais_source = "none".
C4_PositionInBoundsOrNone ==
    (~IsNone(data) /\ Val(data).found) =>
        \/ /\ InBounds(Result.lat, Result.lon)
           /\ \/ PrimarySelected
              \/ ~IsNone(mst_data) /\ BoxSelected
        \/ /\ IsNone(Result.lat)
           /\ IsNone(Result.lon)
           /\ Result.ais_source = "none"

C4_BoundaryPositionEmitted ==
    /\ Answered
    /\ PrimarySelected
    /\ Val(Result.lat).v = 90 * Scale
    /\ Val(Result.lon).v = (0 - 180) * Scale

\* C5: when the page resolves and no source yields a valid candidate, the
\* response is successful with lat, lon, sog and cog absent and ais_source "none".
C5_NoCandidateAllAbsent ==
    (pc = "done" /\ ~IsNone(vf) /\ ~PrimaryValid /\ ~BoxValid) =>
        /\ status = 200
        /\ ~IsNone(data)
        /\ Result.found
        /\ IsNone(Result.lat) /\ IsNone(Result.lon)
        /\ IsNone(Result.sog) /\ IsNone(Result.cog)
        /\ Result.ais_source = "none"

C5_SpeedWithoutPosition ==
    /\ Answered
    /\ Result.ais_source = "none"
    /\ IsNone(Result.lat)
    /\ ~IsNone(Result.sog)

\* C6: a live-feed position report for the vessel that is geographically valid
\* is always the one selected as the merged position.
C6_LiveFeedSelected ==
    (Answered /\ \E msg \in relayed :
                    /\ Some(msg.mmsi) = Result.mmsi
                    /\ InBounds(Some(msg.lat), Some(msg.lon))) =>
        \E msg \in relayed :
            /\ Some(msg.mmsi) = Result.mmsi
            /\ Result.lat = Some(msg.lat)
            /\ Result.lon = Some(msg.lon)
            /\ Result.ais_source \notin {"vesselfinder", "myshiptracking", "none"}

C6_LiveFeedIgnored ==
    /\ Answered
    /\ PrimarySelected
    /\ \E msg \in relayed :
          /\ Some(msg.mmsi) = Result.mmsi
          /\ InBounds(Some(msg.lat), Some(msg.lon))

\* C7: a valid bounding-box candidate is selected whenever the primary candidate
\* is absent or invalid or older than 60 minutes, whatever the precisions; with
\* a primary of 60 minutes or less that is no less precise, the primary is
\* selected.
C7_StalenessOverride ==
    (Answered /\ BoxValid) =>
        /\ (~PrimaryValid \/ Age > 60) => BoxSelected
        /\ (PrimaryValid /\ Age <= 60 /\ BoxPrecision <= PrimaryPrecision)
              => PrimarySelected

C7_StaleButMorePrecisePrimaryLoses ==
    /\ Answered
    /\ BoxValid
    /\ PrimaryValid
    /\ Age > 60
    /\ PrimaryPrecision > BoxPrecision
    /\ BoxSelected

\* C8: with both candidates valid and the primary at most 60 minutes old, the
\* bounding-box candidate wins exactly when it is strictly more precise and the
\* primary is older than 5 minutes.
C8_PrecisionOverrideWithFloor ==
    (Answered /\ BoxValid /\ PrimaryValid /\ Age <= 60) =>
        /\ BoxSelected <=> (BoxPrecision > PrimaryPrecision /\ Age > 5)
        /\ ~BoxSelected => PrimarySelected

C8_FreshPrimaryLosesToPrecision ==
    /\ Answered
    /\ BoxValid
    /\ PrimaryValid
    /\ Age = 3
    /\ BoxPrecision > PrimaryPrecision
    /\ BoxSelected

\* C9: sog and cog come from the winning source; when the bounding-box
\* candidate wins and reports no sog or cog, the primary's value is kept; when
\* the primary wins its sog and cog are unchanged.
C9_SpeedCourseFallback ==
    Answered =>
        /\ Result.ais_source = "myshiptracking" =>
              /\ Result.sog = IF IsNone(Box.sog) THEN Primary.sog ELSE Box.sog
              /\ Result.cog = IF IsNone(Box.cog) THEN Primary.cog ELSE Box.cog
        /\ Result.ais_source = "vesselfinder" =>
              /\ Result.sog = Primary.sog
              /\ Result.cog = Primary.cog

C9_PrimaryCourseCleared ==
    /\ Answered
    /\ BoxSelected
    /\ PrimaryValid
    /\ IsNone(Box.cog)
    /\ ~IsNone(Primary.cog)
    /\ IsNone(Result.cog)

AgeInput == Val(page).last_pos_utc

\* <<n, unit, "ago">> with unit one of units, letter case ignored
IsAgo(p, units) ==
    /\ Len(p) = 3
    /\ p[1].num
    /\ ~p[2].num /\ lower(p[2].w) \in units
    /\ ~p[3].num /\ lower(p[3].w) = "ago"

\* C10: get_vf_age_minutes gives 0 for a phrase containing "now" or "just",
\* X for "X min ago", 60*X for "X hours ago", 1440*X for "X days ago", and 999
\* for every other string, empty and missing included.
C10_AgeOrSentinel ==
    (pc = "return" /\ ~IsNone(vf_age)) =>
        IF IsNone(AgeInput) \/ Val(AgeInput) = <<>> THEN Age = 999
        ELSE LET p == Val(AgeInput) IN
             IF Contains(LowerPhrase(p), "now") \/ Contains(LowerPhrase(p), "just")
             THEN Age = 0
             ELSE IF IsAgo(p, {"min"}) THEN Age = p[1].n
             ELSE IF IsAgo(p, {"hour", "hours"}) THEN Age = 60 * p[1].n
             ELSE IF IsAgo(p, {"day", "days"}) THEN Age = 1440 * p[1].n
             ELSE Age = 999

C10_BareNumberIsFresh ==
    /\ pc = "return"
    /\ AgeInput = Some(<<Num(3), Word("UTC")>>)
    /\ Age = 3

\* the query failed: network error, timeout, non-200 status, too few lines, no
\* line for the vessel, or a vessel line with an unparsable number
BoxFailed ==
    /\ ~IsNone(mst_resp)
    /\ LET r == Val(mst_resp)
       IN \/ r.kind \in {"timeout", "request_error", "status", "short"}
          \/ r.kind = "lines" /\ Some(r.line.mmsi) # Val(page).mmsi
          \/ r.kind = "lines" /\ \E fld \in {r.line.lat, r.line.lon, r.line.sog, r.line.cog} :
                                     fld.k = "garbage"

\* C11: when the bounding-box query fails in any of these ways the adapter
\* returns None without raising, and the request still completes successfully
\* with the primary position if it is valid and with no position otherwise.
C11_BoxFailureFallsBack ==
    (pc = "done" /\ BoxFailed) =>
        /\ IsNone(mst_data)
        /\ status = 200
        /\ ~IsNone(data)
        /\ Result.found
        /\ IF PrimaryValid
           THEN PrimarySelected /\ Result.sog = Primary.sog /\ Result.cog = Primary.cog
           ELSE /\ IsNone(Result.lat)
                /\ IsNone(Result.lon)
                /\ Result.ais_source = "none"

C11_UnparsableLineFallsBackToPrimary ==
    /\ pc = "done"
    /\ ~IsNone(mst_resp)
    /\ Val(mst_resp).kind = "lines"
    /\ Some(Val(mst_resp).line.mmsi) = Val(page).mmsi
    /\ Val(mst_resp).line.sog.k = "garbage"
    /\ status = 200
    /\ PrimarySelected

====
